---- MODULE Spec2Model ----
(***************************************************************************)
(* A model of daam's token-merge resolver (daam/utils.py), its memoized    *)
(* parser (daam/utils.py), its mask accumulator and its experiment record  *)
(* persistence (daam/experiment.py).                                       *)
(*                                                                         *)
(* Strings that the code takes apart (prompts, words, tokens) are          *)
(* sequences of one-character strings; a prompt is the sequence of its     *)
(* whitespace-separated words.  An Optional value is a set with at most    *)
(* one element ({} is None).  Python positions are 0-based, as in the      *)
(* code; TLA+ sequences are 1-based, so token idx is tokens[idx + 1].      *)
(***************************************************************************)
EXTENDS Integers, Sequences, FiniteSets, TLC

VARIABLES
    \* compute_token_merge_indices (utils.py)
    call,        \* the arguments of the call: [prompt, word, word_idx]
    tokenized,   \* the tokenizer's output, grouped by prompt word
    prompt,      \* local `prompt`
    word,        \* local `word`
    word_idx,    \* local `word_idx` ({} is None)
    idx,         \* the number of tokens the for loop has taken
    curr_idx,    \* local `curr_idx`
    curr_token,  \* local `curr_token`
    merge_idxs,  \* local `merge_idxs`
    broke,       \* whether the loop was left by `break`
    tpc,         \* position in the function
    tresult      \* what the call gave back: {} none yet, else a list or an error

tokenVars == <<call, tokenized, prompt, word, word_idx, idx, curr_idx, curr_token,
               merge_idxs, broke, tpc, tresult>>

VARIABLES
    \* _add_mask (experiment.py)
    masks,       \* the label-to-mask dict the calls share
    calls,       \* the calls made so far: [word, mask, simplify80]
    mpc,         \* "ready", or "raised" once a call raised KeyError

    \* GenerationExperiment (experiment.py)
    exp,         \* the record: [id, path, truth_masks, annotations]
    fs,          \* the file system: directory -> file name -> content
    rerr,        \* the error the last operation raised, or "none"
    lastSave,    \* the last save() call: what it was given and what it found
    loaded,      \* what the last load() returned
    nOps,        \* the number of operations so far

    \* cached_nlp (utils.py)
    nlp,         \* the module global `nlp` ({} is None)
    cache,       \* the lru_cache, least recently used entry first
    nresult      \* the last call and what it returned

maskVars == <<masks, calls, mpc>>

recVars == <<exp, fs, rerr, lastSave, loaded, nOps>>

nlpVars == <<nlp, cache, nresult>>

vars == <<tokenVars, maskVars, recVars, nlpVars>>

None == {}
Some(x) == {x}
The(opt) == CHOOSE x \in opt : TRUE

(***************************************************************************)
(* Bounds of the model.                                                    *)
(***************************************************************************)
MaxWords == 2

\* mask values are multiples of 1/Unit: the integer v stands for v/Unit, Unit for 1.0
Unit == 2

\* the number of _add_mask calls
MaxCalls == 2

\* the number of operations on the experiment record
MaxOps == 2

(***************************************************************************)
(* Characters, words and the tokenizer.                                    *)
(***************************************************************************)
\* the marks tried with ',' before '.'
EndOfWordPunctSwapped == <<",", ".", "!", "?">>

\* line 69: the marks tried after the bare word, in this order
EndOfWordPunct == <<".", ",", "!", "?">>

Punctuation == {EndOfWordPunct[i] : i \in 1..Len(EndOfWordPunct)} \cup {";"}

\* str.lower() on one character
LowerChar(c) == CASE c = "A" -> "a"
                  [] c = "B" -> "b"
                  [] OTHER -> c

\* str.lower()
Lower(s) == [i \in 1..Len(s) |-> LowerChar(s[i])]

LowerPrompt(p) == [i \in 1..Len(p) |-> Lower(p[i])]

BaseWords == {<<"a">>, <<"A", "b">>}

PromptWords == BaseWords \cup {b \o <<p>> : b \in BaseWords, p \in Punctuation}

TargetWords == {<<"a">>, <<"A", "b">>}

Prompts == UNION {[1..n -> PromptWords] : n \in 0..MaxWords}

WordIdxArgs == {None} \cup {Some(i) : i \in 0..(MaxWords - 1)}

RECURSIVE Splits(_)
\* every way to cut s into non-empty contiguous pieces
Splits(s) ==
    IF Len(s) = 0 THEN {<<>>}
    ELSE UNION {{<<SubSeq(s, 1, k)>> \o rest : rest \in Splits(SubSeq(s, k + 1, Len(s)))}
                : k \in 1..Len(s)}

\* the pieces as tokens: the last one carries the end-of-word marker '</w>'
MarkEnd(pieces) ==
    [i \in 1..Len(pieces) |-> [text |-> pieces[i], eow |-> (i = Len(pieces))]]

\* The tokens a sub-word tokenizer may give for one whitespace-separated word:
\* any cut of the word with the marker on the last piece, or, for a word that
\* ends in a punctuation mark, any cut of the word before the mark followed by
\* the mark as an end-of-word token of its own.
TokenizeWord(w) ==
    {MarkEnd(sp) : sp \in Splits(w)}
    \cup (IF Len(w) > 1 /\ w[Len(w)] \in Punctuation
          THEN {MarkEnd(sp) \o <<[text |-> <<w[Len(w)]>>, eow |-> TRUE]>>
                : sp \in Splits(SubSeq(w, 1, Len(w) - 1))}
          ELSE {})

RECURSIVE Tokenize(_)
\* tokenizer.tokenize(prompt), grouped by word
Tokenize(p) ==
    IF Len(p) = 0 THEN {<<>>}
    ELSE {<<g>> \o rest : g \in TokenizeWord(p[1]), rest \in Tokenize(Tail(p))}

RECURSIVE Flatten(_)
Flatten(groups) ==
    IF Len(groups) = 0 THEN <<>> ELSE groups[1] \o Flatten(Tail(groups))

\* local `tokens`
tokens == Flatten(tokenized)

(***************************************************************************)
(* compute_token_merge_indices                                             *)
(***************************************************************************)
RECURSIVE ListIndexFrom(_, _, _)
\* list.index(x) scanning from 0-based position i: Some(position) or None
\* (None stands for the ValueError the code catches)
ListIndexFrom(l, x, i) ==
    IF i >= Len(l) THEN None
    ELSE IF l[i + 1] = x THEN Some(i)
    ELSE ListIndexFrom(l, x, i + 1)

ListIndex(l, x) == ListIndexFrom(l, x, 0)

RECURSIVE TryPunct(_, _, _)
\* the for loop over ('.', ',', '!', '?'), from its k-th mark on
TryPunct(split, w, k) ==
    IF k > Len(EndOfWordPunct) THEN None
    ELSE IF ListIndex(split, w \o <<EndOfWordPunct[k]>>) # None
         THEN ListIndex(split, w \o <<EndOfWordPunct[k]>>)
    ELSE TryPunct(split, w, k + 1)

\* lines 65-74: the word index when none was passed
FindWordIdx(split, w) ==
    IF ListIndex(split, w) # None THEN ListIndex(split, w)
    ELSE TryPunct(split, w, 1)

TokenInit ==
    /\ call \in [prompt : Prompts, word : TargetWords, word_idx : WordIdxArgs]
    /\ tokenized = <<>>
    /\ prompt = <<>>
    /\ word = <<>>
    /\ word_idx = None
    /\ idx = 0
    /\ curr_idx = 0
    /\ curr_token = <<>>
    /\ merge_idxs = <<>>
    /\ broke = FALSE
    /\ tpc = "entry"
    /\ tresult = None

\* lines 58-63
Enter ==
    /\ tpc = "entry"
    /\ prompt' = LowerPrompt(call.prompt)
    /\ tokenized' \in Tokenize(LowerPrompt(call.prompt))
    /\ word' = Lower(call.word)
    /\ word_idx' = call.word_idx
    /\ merge_idxs' = <<>>
    /\ curr_idx' = 0
    /\ curr_token' = <<>>
    /\ tpc' = "resolve"
    /\ UNCHANGED <<call, idx, broke, tresult>>
    /\ UNCHANGED <<maskVars, recVars, nlpVars>>

\* lines 65-77
ResolveWordIdx ==
    /\ tpc = "resolve"
    /\ LET found == IF word_idx = None THEN FindWordIdx(prompt, word) ELSE word_idx
       IN  IF found = None
           THEN /\ tresult' = Some([kind |-> "ValueError", word |-> word, prompt |-> prompt])
                /\ tpc' = "raised"
                /\ UNCHANGED word_idx
           ELSE /\ word_idx' = found
                /\ tpc' = "loop"
                /\ UNCHANGED tresult
    /\ UNCHANGED <<call, tokenized, prompt, word, idx, curr_idx, curr_token, merge_idxs, broke>>
    /\ UNCHANGED <<maskVars, recVars, nlpVars>>

\* lines 80-94: one iteration of the for loop
WalkToken ==
    /\ tpc = "loop"
    /\ idx < Len(tokens)
    /\ LET token == tokens[idx + 1]
           appended == Append(merge_idxs, idx)
       IN  IF token.eow
           THEN IF curr_idx = The(word_idx) /\ curr_token \o token.text = word
                THEN /\ curr_token' = curr_token \o token.text
                     /\ merge_idxs' = appended
                     /\ broke' = TRUE
                     /\ tpc' = "return"
                     /\ UNCHANGED curr_idx
                ELSE /\ curr_token' = <<>>
                     /\ curr_idx' = curr_idx + 1
                     /\ merge_idxs' = <<>>
                     /\ UNCHANGED <<broke, tpc>>
           ELSE /\ curr_token' = curr_token \o token.text
                /\ merge_idxs' = Append(appended, idx)
                /\ UNCHANGED <<curr_idx, broke, tpc>>
    /\ idx' = idx + 1
    /\ UNCHANGED <<call, tokenized, prompt, word, word_idx, tresult>>
    /\ UNCHANGED <<maskVars, recVars, nlpVars>>

\* line 80: the token sequence is exhausted
LoopEnd ==
    /\ tpc = "loop"
    /\ idx = Len(tokens)
    /\ tpc' = "return"
    /\ UNCHANGED <<call, tokenized, prompt, word, word_idx, idx, curr_idx, curr_token,
                   merge_idxs, broke, tresult>>
    /\ UNCHANGED <<maskVars, recVars, nlpVars>>

\* line 96
ReturnMergeIdxs ==
    /\ tpc = "return"
    /\ tresult' = Some([kind |-> "list",
                        list |-> [i \in 1..Len(merge_idxs) |-> merge_idxs[i] + 1]])
    /\ tpc' = "returned"
    /\ UNCHANGED <<call, tokenized, prompt, word, word_idx, idx, curr_idx, curr_token,
                   merge_idxs, broke>>
    /\ UNCHANGED <<maskVars, recVars, nlpVars>>

TokenNext == Enter \/ ResolveWordIdx \/ WalkToken \/ LoopEnd \/ ReturnMergeIdxs

(***************************************************************************)
(* Properties of compute_token_merge_indices                               *)
(***************************************************************************)
Occurrences(split, w) == {i \in 0..(Len(split) - 1) : split[i + 1] = w}

FirstOccurrence(split, w) ==
    CHOOSE i \in Occurrences(split, w) : \A j \in Occurrences(split, w) : i <= j

StrictlyAscending(l) == \A i \in 1..(Len(l) - 1) : l[i] < l[i + 1]

RECURSIVE TextAt(_, _)
\* the tokens at the positions of l (token index + 1), markers stripped, concatenated
TextAt(toks, l) ==
    IF Len(l) = 0 THEN <<>> ELSE toks[l[1]].text \o TextAt(toks, Tail(l))

\* every prompt word was tokenized into pieces of which only the last carries the marker
OneMarkerPerWord ==
    \A g \in 1..Len(tokenized) :
        \A i \in 1..Len(tokenized[g]) : tokenized[g][i].eow <=> (i = Len(tokenized[g]))

ReturnedList == The(tresult).list

Returned == tpc = "returned" /\ tresult # None /\ The(tresult).kind = "list"

\* the 1-based positions of the tokens of prompt word k (0-based)
RECURSIVE TokensBefore(_, _)
TokensBefore(groups, k) ==
    IF k = 0 THEN 0 ELSE Len(groups[k]) + TokensBefore(groups, k - 1)

PositionsOfWord(k) ==
    (TokensBefore(tokenized, k) + 1)..TokensBefore(tokenized, k + 1)

\* C1: for a word that occurs exactly once among the prompt's words, tokenized
\* into sub-word pieces whose last piece carries the marker, a call without
\* word_idx returns a non-empty, strictly ascending list of positions whose
\* tokens, concatenated, are the lower-cased word.
C1_UniqueWordResolved ==
    (/\ Returned
     /\ call.word_idx = None
     /\ OneMarkerPerWord
     /\ Cardinality(Occurrences(prompt, word)) = 1)
    => /\ ReturnedList # <<>>
       /\ StrictlyAscending(ReturnedList)
       /\ \A i \in 1..Len(ReturnedList) : ReturnedList[i] \in 1..Len(tokens)
       /\ TextAt(tokens, ReturnedList) = Lower(call.word)

PunctVariants(w) == {w \o <<".">>, w \o <<",">>, w \o <<"!">>, w \o <<"?">>}

OccursBare == Occurrences(prompt, word) # {}

OccursPunctuated == \E v \in PunctVariants(word) : Occurrences(prompt, v) # {}

\* C2: for a word that does not occur bare but occurs followed by one of
\* '.', ',', '!', '?', a call without word_idx returns a non-empty list of
\* positions, all of them positions of the tokens of that prompt word.
C2_PunctuatedWordResolved ==
    (/\ tpc \in {"returned", "raised"}
     /\ call.word_idx = None
     /\ ~OccursBare
     /\ OccursPunctuated)
    => /\ Returned
       /\ ReturnedList # <<>>
       /\ \A i \in 1..Len(ReturnedList) : ReturnedList[i] \in PositionsOfWord(The(word_idx))

\* C3: a call whose token walk ends without the stop condition being met (no
\* break) returns no list.
C3_ExhaustedWalkRaises ==
    (tpc \in {"return", "returned", "raised"} /\ ~broke) => ~Returned /\ tpc # "return"

ClaimedPunctOrder == <<".", ",", "!", "?">>

ClaimedFirstVariant ==
    LET k == CHOOSE k \in 1..4 :
                 /\ Occurrences(prompt, word \o <<ClaimedPunctOrder[k]>>) # {}
                 /\ \A j \in 1..(k - 1) :
                        Occurrences(prompt, word \o <<ClaimedPunctOrder[j]>>) = {}
    IN  word \o <<ClaimedPunctOrder[k]>>

ClaimedWordIdx ==
    IF OccursBare THEN FirstOccurrence(prompt, word)
    ELSE FirstOccurrence(prompt, ClaimedFirstVariant)

\* C4: without word_idx, when neither the word nor the word followed by one
\* of '.', ',', '!', '?' is among the prompt's words, the call raises the
\* word-not-found error, carrying word and prompt, before any token is walked
\* and returns no list; otherwise it does not raise that error and the index
\* it uses is that of the bare word if present, else that of the first
\* punctuation variant present, in the order '.', ',', '!', '?'.
C4_WordLookup ==
    (tpc \notin {"entry", "resolve"} /\ call.word_idx = None)
    => IF ~OccursBare /\ ~OccursPunctuated
       THEN /\ tpc = "raised"
            /\ idx = 0
            /\ merge_idxs = <<>>
            /\ tresult = Some([kind |-> "ValueError", word |-> Lower(call.word),
                               prompt |-> LowerPrompt(call.prompt)])
       ELSE /\ tpc # "raised"
            /\ word_idx = Some(ClaimedWordIdx)
            /\ (tresult # None => The(tresult).kind = "list")

\* the word-not-found error was raised for a prompt that holds the word followed
\* by a mark outside the four
C4_Witness ==
    /\ tpc = "raised"
    /\ call.word_idx = None
    /\ Len(prompt) = 2
    /\ \E i \in 1..Len(prompt) : prompt[i] = word \o <<";">>

(***************************************************************************)
(* _add_mask                                                               *)
(***************************************************************************)
COCO80_TO_27 ==
    ("bicycle" :> "vehicle") @@ ("car" :> "vehicle") @@ ("motorcycle" :> "vehicle") @@
    ("airplane" :> "vehicle") @@ ("bus" :> "vehicle") @@ ("train" :> "vehicle") @@
    ("truck" :> "vehicle") @@ ("boat" :> "vehicle") @@ ("traffic light" :> "accessory") @@
    ("fire hydrant" :> "accessory") @@ ("stop sign" :> "accessory") @@
    ("parking meter" :> "accessory") @@ ("bench" :> "furniture") @@
    ("bird" :> "animal") @@ ("cat" :> "animal") @@ ("dog" :> "animal") @@
    ("horse" :> "animal") @@ ("sheep" :> "animal") @@ ("cow" :> "animal") @@
    ("elephant" :> "animal") @@ ("bear" :> "animal") @@ ("zebra" :> "animal") @@
    ("giraffe" :> "animal") @@ ("backpack" :> "accessory") @@
    ("umbrella" :> "accessory") @@ ("handbag" :> "accessory") @@ ("tie" :> "accessory") @@
    ("suitcase" :> "accessory") @@ ("frisbee" :> "sports") @@ ("skis" :> "sports") @@
    ("snowboard" :> "sports") @@ ("sports ball" :> "sports") @@ ("kite" :> "sports") @@
    ("baseball bat" :> "sports") @@ ("baseball glove" :> "sports") @@
    ("skateboard" :> "sports") @@ ("surfboard" :> "sports") @@
    ("tennis racket" :> "sports") @@ ("bottle" :> "food") @@ ("wine glass" :> "food") @@
    ("cup" :> "food") @@ ("fork" :> "food") @@ ("knife" :> "food") @@
    ("spoon" :> "food") @@ ("bowl" :> "food") @@ ("banana" :> "food") @@
    ("apple" :> "food") @@ ("sandwich" :> "food") @@ ("orange" :> "food") @@
    ("broccoli" :> "food") @@ ("carrot" :> "food") @@ ("hot dog" :> "food") @@
    ("pizza" :> "food") @@ ("donut" :> "food") @@ ("cake" :> "food") @@
    ("chair" :> "furniture") @@ ("couch" :> "furniture") @@ ("potted plant" :> "plant") @@
    ("bed" :> "furniture") @@ ("dining table" :> "furniture") @@
    ("toilet" :> "furniture") @@ ("tv" :> "electronic") @@ ("laptop" :> "electronic") @@
    ("mouse" :> "electronic") @@ ("remote" :> "electronic") @@
    ("keyboard" :> "electronic") @@ ("cell phone" :> "electronic") @@
    ("microwave" :> "appliance") @@ ("oven" :> "appliance") @@
    ("toaster" :> "appliance") @@ ("sink" :> "appliance") @@
    ("refrigerator" :> "appliance") @@ ("book" :> "indoor") @@ ("clock" :> "indoor") @@
    ("vase" :> "indoor") @@ ("scissors" :> "indoor") @@ ("teddy bear" :> "indoor") @@
    ("hair drier" :> "indoor") @@ ("toothbrush" :> "indoor")

\* str.lower() on a label
LowerLabel(l) == CASE l = "Cat" -> "cat"
                   [] l = "Car" -> "car"
                   [] OTHER -> l

\* a 1 x 2 tensor
Pixels == {<<0, 0>>, <<0, 1>>}

Masks == [Pixels -> 0..Unit]

BinaryMasks == [Pixels -> {0, Unit}]

MaskLabels == {"car", "bus", "cat", "Cat", "vehicle"}

EmptyDict == [l \in {} |-> {}]

\* dict assignment d[k] = v
DictSet(d, k, v) == [l \in DOMAIN d \cup {k} |-> IF l = k THEN v ELSE d[l]]

\* line 61: COCO80_TO_27.get(word, word)
DictGet(d, k, default) == IF k \in DOMAIN d THEN d[k] ELSE default

\* the table's entry looked up but the label left as it was
CoarsenDropped(w, simplify80) == w

\* lines 60-61
Coarsen(w, simplify80) == IF simplify80 THEN DictGet(COCO80_TO_27, w, w) ELSE w

\* line 64: tensor + tensor
TensorAdd(a, b) == [p \in Pixels |-> a[p] + b[p]]

\* line 65: clamp_(0, 1)
Clamp(t) == [p \in Pixels |-> IF t[p] < 0 THEN 0 ELSE IF t[p] > Unit THEN Unit ELSE t[p]]

\* lines 59-69: the dict after the call, and whether the call raised KeyError
AddMask(d, w, mask, simplify80) ==
    LET key == Coarsen(w, simplify80)
    IN  IF key \in DOMAIN d
        THEN IF LowerLabel(key) \in DOMAIN d
             THEN [masks |-> DictSet(d, key, Clamp(TensorAdd(d[LowerLabel(key)], mask))),
                   raised |-> FALSE]
             ELSE [masks |-> d, raised |-> TRUE]
        ELSE [masks |-> DictSet(d, key, mask), raised |-> FALSE]

MaskInit ==
    /\ masks = EmptyDict
    /\ calls = <<>>
    /\ mpc = "ready"

\* one call _add_mask(masks, w, mask, simplify80)
AddMaskCall ==
    /\ mpc = "ready"
    /\ Len(calls) < MaxCalls
    /\ \E w \in MaskLabels, mask \in Masks, simplify80 \in BOOLEAN :
        LET r == AddMask(masks, w, mask, simplify80)
        IN  /\ masks' = r.masks
            /\ mpc' = IF r.raised THEN "raised" ELSE "ready"
            /\ calls' = Append(calls, [word |-> w, mask |-> mask, simplify80 |-> simplify80])
    /\ UNCHANGED <<tokenVars, recVars, nlpVars>>

MaskNext == AddMaskCall

(***************************************************************************)
(* Properties of _add_mask                                                 *)
(***************************************************************************)
\* the calls that completed
Completed == IF mpc = "raised" THEN SubSeq(calls, 1, Len(calls) - 1) ELSE calls

InUnitRange(t) == \A p \in Pixels : 0 <= t[p] /\ t[p] <= Unit

ClampedSum(a, b) ==
    [p \in Pixels |-> IF a[p] + b[p] > Unit THEN Unit ELSE a[p] + b[p]]

\* the dict that the two calls give, made in the other order, from an empty dict
Swapped ==
    AddMask(AddMask(EmptyDict, calls[2].word, calls[2].mask, calls[2].simplify80).masks,
            calls[1].word, calls[1].mask, calls[1].simplify80)

\* C5: two masks accumulated under one label give a mask for that label that
\* is the same in either order of insertion and lies in [0,1], and a binary
\* mask accumulated twice gives what accumulating it once gives.
C5_AccumulateCommutes ==
    (/\ Len(calls) = 2
     /\ calls[1].word = calls[2].word
     /\ ~calls[1].simplify80 /\ ~calls[2].simplify80)
    => /\ mpc = "ready"
       /\ calls[1].word \in DOMAIN masks
       /\ ~Swapped.raised
       /\ masks[calls[1].word] = Swapped.masks[calls[1].word]
       /\ InUnitRange(masks[calls[1].word])
       /\ (calls[1].mask = calls[2].mask /\ calls[1].mask \in BinaryMasks
           => masks[calls[1].word] = calls[1].mask)

SameUpToCase(a, b) == LowerLabel(a) = LowerLabel(b)

\* C6: label keys are case-insensitive: two calls under labels equal up to
\* case complete and leave one entry, the clamped sum of the two masks, and
\* the dict never holds two keys that differ only in case.
C6_KeysCaseInsensitive ==
    /\ \A k1, k2 \in DOMAIN masks : SameUpToCase(k1, k2) => k1 = k2
    /\ (/\ Len(calls) = 2
        /\ SameUpToCase(calls[1].word, calls[2].word)
        /\ ~calls[1].simplify80 /\ ~calls[2].simplify80)
       => /\ mpc = "ready"
          /\ Cardinality(DOMAIN masks) = 1
          /\ \A k \in DOMAIN masks : masks[k] = ClampedSum(calls[1].mask, calls[2].mask)

\* the key the claim gives a call
ClaimedKey(c) ==
    IF c.simplify80 /\ c.word \in DOMAIN COCO80_TO_27 THEN COCO80_TO_27[c.word] ELSE c.word

CarThenBus ==
    /\ Len(calls) = 2
    /\ {calls[1].word, calls[2].word} = {"car", "bus"}
    /\ calls[1].simplify80 /\ calls[2].simplify80

\* C7: with simplify80, 'car' and 'bus' accumulated into an empty dict leave
\* the single key 'vehicle' with the clamped sum of the two masks; the keys
\* of the dict are the table's entries for the labels added with simplify80
\* that the table holds, and the labels themselves for all others.
C7_Coarsening ==
    /\ CarThenBus => /\ mpc = "ready"
                     /\ DOMAIN masks = {"vehicle"}
                     /\ masks["vehicle"] = ClampedSum(calls[1].mask, calls[2].mask)
    /\ DOMAIN masks = {ClaimedKey(Completed[i]) : i \in 1..Len(Completed)}
    /\ (Len(calls) = 1 => mpc = "ready" /\ masks[ClaimedKey(calls[1])] = calls[1].mask)

\* 'car' then 'bus' were accumulated with simplify80, and the two masks overlap
C7_Witness ==
    /\ CarThenBus
    /\ calls[1].word = "car"
    /\ \E p \in Pixels : calls[1].mask[p] = Unit /\ calls[2].mask[p] = Unit
    /\ \E p \in Pixels : calls[1].mask[p] = 0 /\ calls[2].mask[p] = Unit

(***************************************************************************)
(* GenerationExperiment: save, save_annotations, annotate, load.           *)
(* A directory Path(root) / id is the pair <<root, id>>; a file name is    *)
(* the pair <<stem, suffix>>.                                              *)
(***************************************************************************)
Roots == {"out", "alt"}

ExperimentId == "exp0"

Dirs == {<<r, ExperimentId>> : r \in Roots}

TruthLabels == {"cat", "Cat", "car"}

TruthDicts == UNION {[ls -> BinaryMasks] : ls \in SUBSET TruthLabels}

AnnotationKeys == {"k"}

AnnotationValues == {"v1", "v2"}

GenerationFile == <<"generation", ".pt">>

OutputFile == <<"output", ".png">>

PromptFile == <<"prompt", ".txt">>

SeedFile == <<"seed", ".txt">>

AnnotationsFile == <<"annotations", ".json">>

\* the file named after the label as it is, not lower-cased
TruthMaskFileAsIs(name) == <<name, ".gt.png">>

\* line 105: f'{name.lower()}.gt.png'
TruthMaskFile(name) == <<LowerLabel(name), ".gt.png">>

\* line 104: (mask * 255) ... .byte(), the same value in each of the 4 channels
MaskImage(mask) == [p \in Pixels |-> (mask[p] * 255) \div Unit]

\* evaluate.load_mask: the image loader, which binarizes a mask image
LoadMask(image) == [p \in Pixels |-> IF image[p] > 0 THEN Unit ELSE 0]

\* lines 102-105: the mask files the loop over truth_masks.items() leaves; of
\* two labels with one file name the later in the dict's order is kept, and
\* the order is any
TruthMaskFiles(truth_masks) ==
    IF truth_masks = None THEN {EmptyDict}
    ELSE LET d == The(truth_masks)
             names == {TruthMaskFile(l) : l \in DOMAIN d}
         IN  {[n \in names |-> MaskImage(d[last[n]])] :
                 last \in {f \in [names -> DOMAIN d] : \A n \in names : TruthMaskFile(f[n]) = n}}

\* the files of dict `new` written over those of `old`
WriteFiles(old, new) ==
    [n \in DOMAIN old \cup DOMAIN new |-> IF n \in DOMAIN new THEN new[n] ELSE old[n]]

FilesOf(files, d) == IF d \in DOMAIN files THEN files[d] ELSE EmptyDict

\* lines 109-115: save_annotations() with no path: the file system after it
\* and the error it raised
SaveAnnotations(files, e) ==
    IF e.annotations = None THEN [fs |-> files, err |-> "none"]
    ELSE IF e.path = None THEN [fs |-> files, err |-> "TypeError"]
    ELSE IF The(e.path) \notin DOMAIN files THEN [fs |-> files, err |-> "FileNotFoundError"]
    ELSE [fs |-> DictSet(files, The(e.path),
                         DictSet(files[The(e.path)], AnnotationsFile, The(e.annotations))),
          err |-> "none"]

\* lines 87-90: the directory save(path) writes to
SaveTarget(e, path) == IF path = None THEN e.path ELSE Some(<<The(path), e.id>>)

\* lines 92-100: generation.pt, output.png, prompt.txt, seed.txt
RecordFiles(e) ==
    [n \in {GenerationFile, OutputFile, PromptFile, SeedFile} |->
        CASE n = GenerationFile -> e
          [] n = OutputFile -> "image"
          [] n = PromptFile -> e.prompt
          [] n = SeedFile -> e.seed]

RecInit ==
    /\ exp \in [id : {ExperimentId}, prompt : {"a cat"}, seed : {"0"},
                path : {None} \cup {Some(d) : d \in Dirs},
                truth_masks : {None} \cup {Some(d) : d \in TruthDicts},
                annotations : {None} \cup {Some(d) : d \in [AnnotationKeys -> {"v1"}]}]
    /\ fs = EmptyDict
    /\ rerr = "none"
    /\ lastSave = None
    /\ loaded = None
    /\ nOps = 0

\* lines 86-107: save(path)
Save ==
    /\ nOps < MaxOps
    /\ nOps' = nOps + 1
    /\ \E path \in {None} \cup {Some(r) : r \in Roots} :
        LET target == SaveTarget(exp, path)
        IN  IF target = None
            THEN /\ rerr' = "AttributeError"
                 /\ lastSave' = Some([path |-> path, dir |-> None, exp |-> exp,
                                      before |-> fs, err |-> "AttributeError"])
                 /\ UNCHANGED fs
            ELSE \E maskFiles \in TruthMaskFiles(exp.truth_masks) :
                   LET dir == The(target)
                       written == WriteFiles(WriteFiles(FilesOf(fs, dir), RecordFiles(exp)),
                                             maskFiles)
                       r == SaveAnnotations(DictSet(fs, dir, written), exp)
                   IN  /\ fs' = r.fs
                       /\ rerr' = r.err
                       /\ lastSave' = Some([path |-> path, dir |-> target, exp |-> exp,
                                            before |-> fs, err |-> r.err])
    /\ UNCHANGED <<exp, loaded>>
    /\ UNCHANGED <<tokenVars, maskVars, nlpVars>>

\* lines 174-180: annotate(key, value)
Annotate ==
    /\ nOps < MaxOps
    /\ nOps' = nOps + 1
    /\ \E k \in AnnotationKeys, v \in AnnotationValues :
        exp' = [exp EXCEPT !.annotations =
                   Some(DictSet(IF exp.annotations = None THEN EmptyDict
                                ELSE The(exp.annotations), k, v))]
    /\ rerr' = "none"
    /\ UNCHANGED <<fs, lastSave, loaded>>
    /\ UNCHANGED <<tokenVars, maskVars, nlpVars>>

\* line 120: self.path.glob('*.gt.png')
GlobTruthMasks(files) == {n \in DOMAIN files : n[2] = ".gt.png"}

RECURSIVE AddMasksOf(_, _, _, _)
\* lines 117-125: the dicts _load_truth_masks may return for the mask files
\* `names` still to be read, glob giving them in any order
AddMasksOf(files, names, d, simplify80) ==
    IF names = {} THEN {[masks |-> d, raised |-> FALSE]}
    ELSE UNION {LET r == AddMask(d, LowerLabel(n[1]), LoadMask(files[n]), simplify80)
                IN  IF r.raised THEN {r}
                    ELSE AddMasksOf(files, names \ {n}, r.masks, simplify80)
                : n \in names}

LoadTruthMasks(files, simplify80) ==
    AddMasksOf(files, GlobTruthMasks(files), EmptyDict, simplify80)

\* lines 168-172: _try_load_annotations
TryLoadAnnotations(files) ==
    IF AnnotationsFile \notin DOMAIN files THEN None ELSE Some(files[AnnotationsFile])

\* lines 182-192: load(path, simplify80=...)
Load ==
    /\ nOps < MaxOps
    /\ nOps' = nOps + 1
    /\ \E dir \in Dirs, simplify80 \in BOOLEAN :
        IF dir \notin DOMAIN fs \/ GenerationFile \notin DOMAIN FilesOf(fs, dir)
        THEN /\ rerr' = "FileNotFoundError"
             /\ loaded' = None
        ELSE \E truth \in LoadTruthMasks(fs[dir], simplify80) :
               IF truth.raised
               THEN /\ rerr' = "KeyError"
                    /\ loaded' = None
               ELSE /\ rerr' = "none"
                    /\ loaded' = Some([exp |-> [fs[dir][GenerationFile] EXCEPT
                                                   !.path = Some(dir),
                                                   !.truth_masks = Some(truth.masks),
                                                   !.annotations = TryLoadAnnotations(fs[dir])],
                                       simplify80 |-> simplify80,
                                       after |-> lastSave])
    /\ UNCHANGED <<exp, fs, lastSave>>
    /\ UNCHANGED <<tokenVars, maskVars, nlpVars>>

RecNext == Save \/ Annotate \/ Load

(***************************************************************************)
(* cached_nlp                                                              *)
(***************************************************************************)
maxsize == 100000

DefaultType == "en_core_web_md"

ParserModels == {"en_core_web_md", "en_core_web_lg"}

NlpPrompts == {"a cat", "a dog"}

\* the arguments of a call: `type` may be omitted
NlpKeys == [prompt : NlpPrompts, type : {None} \cup {Some(t) : t \in ParserModels}]

TypeOf(key) == IF key.type = None THEN DefaultType ELSE The(key.type)

Cached(key) == {i \in 1..Len(cache) : cache[i].key = key}

Without(seq, i) == SubSeq(seq, 1, i - 1) \o SubSeq(seq, i + 1, Len(seq))

\* line 102: an entry added to a full cache evicts the least recently used one
Insert(c, entry) ==
    IF Len(c) >= maxsize THEN Append(Tail(c), entry) ELSE Append(c, entry)

NlpInit ==
    /\ nlp = None
    /\ cache = <<>>
    /\ nresult = None

\* line 102: the call is answered from the cache
CacheHit ==
    /\ \E key \in NlpKeys :
            /\ Cached(key) # {}
            /\ LET i == CHOOSE i \in Cached(key) : TRUE
               IN  /\ nresult' = Some([key |-> key, value |-> cache[i].value])
                   /\ cache' = Append(Without(cache, i), cache[i])
            /\ UNCHANGED nlp
    /\ UNCHANGED <<tokenVars, maskVars, recVars>>

\* lines 103-109: the body runs and its result is cached
CacheMiss ==
    /\ \E key \in NlpKeys :
            /\ Cached(key) = {}
            /\ LET loadedNlp == IF nlp = None THEN Some(TypeOf(key)) ELSE nlp
                   value == [prompt |-> key.prompt, model |-> The(loadedNlp)]
               IN  /\ nlp' = loadedNlp
                   /\ nresult' = Some([key |-> key, value |-> value])
                   /\ cache' = Insert(cache, [key |-> key, value |-> value])
    /\ UNCHANGED <<tokenVars, maskVars, recVars>>

NlpNext == CacheHit \/ CacheMiss

(***************************************************************************)
(* Properties of GenerationExperiment                                      *)
(***************************************************************************)
\* the last load followed a save into the directory it read
LoadedAfterSave ==
    /\ loaded # None
    /\ The(loaded).after # None
    /\ The(The(loaded).after).dir = The(loaded).exp.path

SavedExp == The(The(loaded).after).exp

\* the directory of the save held no mask file before it
CleanBefore(save) ==
    GlobTruthMasks(FilesOf(save.before, The(save.dir))) = {}

RoundTripCase ==
    /\ LoadedAfterSave
    /\ ~The(loaded).simplify80
    /\ SavedExp.truth_masks # None
    /\ CleanBefore(The(The(loaded).after))

\* C8 as claimed: the truth masks loaded after a save, with coarsening off,
\* from a directory that held no mask files before, are the saved dict: the
\* same labels, of any letter case, with the same masks.
C8_RoundTripAnyCase ==
    RoundTripCase => The(loaded).exp.truth_masks = SavedExp.truth_masks

LowerCasedLabels(d) == {LowerLabel(l) : l \in DOMAIN d}

\* C8, amended: save leaves one '<lower-cased label>.gt.png' file per
\* lower-cased label of the dict, and the truth masks loaded after it, with
\* coarsening off, from a directory that held no mask files before, have the
\* dict's labels lower-cased, each with the mask of a label of the dict that
\* lower-cases to it; so a dict whose labels are all lower-case is loaded back
\* as it was saved.
C8_RoundTripLowerCased ==
    /\ (lastSave # None /\ The(lastSave).dir # None /\ The(lastSave).exp.truth_masks # None
        /\ CleanBefore(The(lastSave)))
       => GlobTruthMasks(fs[The(The(lastSave).dir)])
            = {<<n, ".gt.png">> : n \in LowerCasedLabels(The(The(lastSave).exp.truth_masks))}
    /\ RoundTripCase
       => LET saved == The(SavedExp.truth_masks)
              back == The(The(loaded).exp.truth_masks)
          IN  /\ DOMAIN back = LowerCasedLabels(saved)
              /\ \A n \in DOMAIN back :
                    \E l \in DOMAIN saved : LowerLabel(l) = n /\ back[n] = saved[l]
              /\ (\A l \in DOMAIN saved : LowerLabel(l) = l) => back = saved

\* a dict with a mixed-case label and another label was saved and loaded back
C8_Witness ==
    /\ RoundTripCase
    /\ DOMAIN The(SavedExp.truth_masks) = {"Cat", "car"}
    /\ The(SavedExp.truth_masks)["Cat"] # The(SavedExp.truth_masks)["car"]
    /\ \E p \in Pixels : The(SavedExp.truth_masks)["Cat"][p] = Unit

\* the files of the record's layout that a save of record e writes
LayoutFiles(e) ==
    {GenerationFile, OutputFile, PromptFile, SeedFile}
    \cup (IF e.truth_masks = None THEN {}
          ELSE {<<LowerLabel(l), ".gt.png">> : l \in DOMAIN The(e.truth_masks)})
    \cup (IF e.annotations = None THEN {} ELSE {AnnotationsFile})

\* C9: save(path=P) with an explicit P, whatever the record's path field,
\* raises no error, writes every file of the layout (annotations.json too
\* when there are annotations) into P/<id> and leaves every other directory
\* as it was; a load of P/<id> after it returns the saved annotations.
C9_ExplicitSaveOneDirectory ==
    /\ (lastSave # None /\ The(lastSave).path # None)
       => LET save == The(lastSave)
              dir == <<The(save.path), save.exp.id>>
          IN  /\ save.err = "none"
              /\ dir \in DOMAIN fs
              /\ LayoutFiles(save.exp) \subseteq DOMAIN fs[dir]
              /\ DOMAIN fs \ {dir} = DOMAIN save.before \ {dir}
              /\ \A d \in DOMAIN fs \ {dir} : fs[d] = save.before[d]
    /\ (LoadedAfterSave /\ The(The(loaded).after).path # None)
       => The(loaded).exp.annotations = SavedExp.annotations

(***************************************************************************)
(* Properties of cached_nlp                                                *)
(***************************************************************************)
\* C10: a call returns the parse of its prompt made by the parser model its
\* type names, whatever the earlier calls named, and two cached parses of one
\* prompt under different model names are not made by the same model.
C10_ParseByNamedModel ==
    /\ nresult # None
       => /\ The(nresult).value.prompt = The(nresult).key.prompt
          /\ The(nresult).value.model = TypeOf(The(nresult).key)
    /\ \A i, j \in 1..Len(cache) :
          (cache[i].key.prompt = cache[j].key.prompt
           /\ TypeOf(cache[i].key) # TypeOf(cache[j].key))
          => cache[i].value.model # cache[j].value.model

(***************************************************************************)
(* Specifications: one per unit, the other units at rest.                  *)
(***************************************************************************)
TokenIdle ==
    /\ call = [prompt |-> <<>>, word |-> <<>>, word_idx |-> None]
    /\ tokenized = <<>>
    /\ prompt = <<>>
    /\ word = <<>>
    /\ word_idx = None
    /\ idx = 0
    /\ curr_idx = 0
    /\ curr_token = <<>>
    /\ merge_idxs = <<>>
    /\ broke = FALSE
    /\ tpc = "idle"
    /\ tresult = None

RecIdle ==
    /\ exp = [id |-> ExperimentId, prompt |-> "a cat", seed |-> "0", path |-> None,
              truth_masks |-> None, annotations |-> None]
    /\ fs = EmptyDict
    /\ rerr = "none"
    /\ lastSave = None
    /\ loaded = None
    /\ nOps = 0

TokenSpecInit == TokenInit /\ MaskInit /\ RecIdle /\ NlpInit

TokenSpec == TokenSpecInit /\ [][TokenNext]_vars

MaskSpecInit == TokenIdle /\ MaskInit /\ RecIdle /\ NlpInit

MaskSpec == MaskSpecInit /\ [][MaskNext]_vars

RecSpecInit == TokenIdle /\ MaskInit /\ RecInit /\ NlpInit

RecSpec == RecSpecInit /\ [][RecNext]_vars

NlpSpecInit == TokenIdle /\ MaskInit /\ RecIdle /\ NlpInit

NlpSpec == NlpSpecInit /\ [][NlpNext]_vars

====
